---- MODULE Spec2Model ----
(***************************************************************************)
(* Model of the process supervisor of contextvault-app                     *)
(* (src-tauri/src/main.rs): the shared AppState (tracked child handle and   *)
(* status record) and the commands that read and write it.                  *)
(*                                                                         *)
(* Option<T> is modelled as a set with at most one element:                 *)
(* None == {} and Some(v) == {v}.                                           *)
(***************************************************************************)
EXTENDS Integers, Sequences, FiniteSets, TLC

\* Bound on the number of child processes spawned in one behaviour.
MaxChildren == 3

\* Bound on the length of the entry arrays in response bodies.
MaxEntries == 1

\* The port the child is told to bind and the record stores (main.rs:303, 328).
ServerPort == 8000

None == {}
Some(v) == {v}

Children == 1..MaxChildren

\* Outcomes of the environment calls made by the handlers.
PollOutcomes == {"running", "exited", "error"}
ProbeOutcomes == {"success", "non_success", "conn_error"}

\* AppState.server_process : Option<Child>, a child id
VARIABLE server_process
\* AppState.status : ContextVaultStatus
VARIABLE status
\* child processes that exist and have not exited
VARIABLE alive
\* number of children spawned so far
VARIABLE spawned
\* the setup thread has made its start attempt
VARIABLE autoStarted
\* the last command executed: its inputs, its result and its effects
VARIABLE lastOp
\* name and result of the command executed before lastOp
VARIABLE prevOp
\* the commands in flight when start, stop and get_server_status run
\* concurrently: each one's position, locals and result
VARIABLE conc

vars == <<server_process, status, alive, spawned, autoStarted, lastOp, prevOp, conc>>

\* AppState::default().status
DefaultStatus ==
    [running |-> FALSE, port |-> None, ollama_detected |-> FALSE,
     ollama_port |-> None, context_entries |-> 0, last_error |-> None]

\* StartedStatus with the reset of last_error left out.
StartedStatus_KeepsError(s) ==
    [s EXCEPT !.running = TRUE, !.port = Some(ServerPort)]

\* The assignments of a successful start to the status record.
StartedStatus(s) ==
    [s EXCEPT !.running = TRUE, !.port = Some(ServerPort), !.last_error = None]

\* StoppedStatus with the assignment of last_error left out.
StoppedStatus_NoMessage(s) ==
    [s EXCEPT !.running = FALSE, !.port = None]

\* StoppedStatus with the reset of port left out.
StoppedStatus_KeepsPort(s) ==
    [s EXCEPT !.running = FALSE, !.last_error = Some("Server stopped")]

\* The assignments of stop to the status record.
StoppedStatus(s) ==
    [s EXCEPT !.running = FALSE, !.port = None,
              !.last_error = Some("Server stopped")]

\* NotRespondingStatus with the reset of running left out.
NotRespondingStatus_StillRunning(s) ==
    [s EXCEPT !.last_error = Some("Server not responding")]

\* The local copy get_server_status builds when the probe does not succeed.
NotRespondingStatus(s) ==
    [s EXCEPT !.running = FALSE, !.last_error = Some("Server not responding")]

\* StartFailed that also writes the error into the status record.
StartFailed_RecordsError(st, proc, child, err) ==
    [result |-> err, server_process |-> proc,
     status |-> [st EXCEPT !.last_error = Some(err)], ret |-> None,
     child |-> child]

\* StartFailed that stores the spawned child's handle before returning.
StartFailed_KeepsHandle(st, proc, child, err) ==
    [result |-> err,
     server_process |-> IF child # None THEN child ELSE proc,
     status |-> st, ret |-> None, child |-> child]

\* An error return of start_contextvault_server_internal: the local handle
\* `process` (if any) is dropped, AppState is not touched.
StartFailed(st, proc, child, err) ==
    [result |-> err, server_process |-> proc, status |-> st, ret |-> None,
     child |-> child]

\* Path::new(&contextvault_path).exists() is false.
BinaryMissing(exists) == ~exists

\* start_contextvault_server_internal.  st, proc: AppState before the call;
\* id: the id the spawned child gets; pathOk: current_exe()/parent() succeed;
\* exists: the binary is on disk; spawnOk: Command::spawn succeeds;
\* poll: outcome of process.try_wait() after the settling delay.
start_contextvault_server_internal(st, proc, id, pathOk, exists, spawnOk, poll) ==
    IF ~pathOk THEN StartFailed(st, proc, None, "PathError")
    ELSE IF BinaryMissing(exists) THEN StartFailed(st, proc, None, "NotFound")
    ELSE IF ~spawnOk THEN StartFailed(st, proc, None, "SpawnFailed")
    ELSE IF poll = "exited" THEN StartFailed(st, proc, Some(id), "ProcessExited")
    ELSE IF poll = "error" THEN StartFailed(st, proc, Some(id), "PollError")
    ELSE [result |-> "Ok", server_process |-> Some(id),
          status |-> StartedStatus(st), ret |-> Some(StartedStatus(st)),
          child |-> Some(id)]

\* stop_contextvault_server that returns the status untouched when no child
\* is tracked.
stop_contextvault_server_NoOpUntracked(st, proc, killOk) ==
    IF proc = None
    THEN [result |-> "Ok", server_process |-> None, status |-> st,
          ret |-> Some(st), kill |-> None]
    ELSE IF ~killOk
    THEN [result |-> "KillFailed", server_process |-> None, status |-> st,
          ret |-> None, kill |-> proc]
    ELSE [result |-> "Ok", server_process |-> None,
          status |-> StoppedStatus(st), ret |-> Some(StoppedStatus(st)),
          kill |-> proc]

\* stop_contextvault_server that puts the handle back when kill fails.
stop_contextvault_server_RestoresHandle(st, proc, killOk) ==
    IF proc # None /\ ~killOk
    THEN [result |-> "KillFailed", server_process |-> proc, status |-> st,
          ret |-> None, kill |-> proc]
    ELSE [result |-> "Ok", server_process |-> None,
          status |-> StoppedStatus(st), ret |-> Some(StoppedStatus(st)),
          kill |-> proc]

\* stop_contextvault_server that borrows the handle instead of taking it.
stop_contextvault_server_BorrowsHandle(st, proc, killOk) ==
    IF proc # None /\ ~killOk
    THEN [result |-> "KillFailed", server_process |-> proc, status |-> st,
          ret |-> None, kill |-> proc]
    ELSE [result |-> "Ok", server_process |-> proc,
          status |-> StoppedStatus(st), ret |-> Some(StoppedStatus(st)),
          kill |-> proc]

\* stop_contextvault_server.  killOk: process.kill() returns Ok.
stop_contextvault_server(st, proc, killOk) ==
    IF proc # None /\ ~killOk
    THEN [result |-> "KillFailed", server_process |-> None, status |-> st,
          ret |-> None, kill |-> proc]
    ELSE [result |-> "Ok", server_process |-> None,
          status |-> StoppedStatus(st), ret |-> Some(StoppedStatus(st)),
          kill |-> proc]

\* ProbeSucceeded with the test inverted.
ProbeSucceeded_Inverted(probe) == probe # "success"

\* response.status().is_success() on an Ok response.
ProbeSucceeded(probe) == probe = "success"

\* get_server_status without the test of the running flag, probing the
\* default port when none is recorded.
get_server_status_NoRunningTest(st, probe) ==
    IF ProbeSucceeded(probe)
    THEN [ret |-> st, net |-> 1]
    ELSE [ret |-> NotRespondingStatus(st), net |-> 1]

\* get_server_status.  probe: outcome of the GET /api/health request, used
\* only when a request is issued.
get_server_status(st, probe) ==
    IF st.running
    THEN IF st.port # None /\ ProbeSucceeded(probe)
         THEN [ret |-> st, net |-> 1]
         ELSE [ret |-> NotRespondingStatus(st),
               net |-> IF st.port # None THEN 1 ELSE 0]
    ELSE [ret |-> st, net |-> 0]

\* Entry ids that appear in response bodies.
Entries == {"e1"}

\* Arrays of entries of length at most MaxEntries.
EntryLists == UNION {[1..n -> Entries] : n \in 0..MaxEntries}

\* The bodies a success response can carry.  kind "read_error": reading the
\* body fails; "not_json": text that is not JSON; "object": a JSON object,
\* with an array under "entries" iff hasEntries; "array": a top-level JSON
\* array.  items are the entries the JSON value carries; text identifies the
\* raw body.
Bodies ==
    {[kind |-> "read_error", text |-> "", hasEntries |-> FALSE, items |-> <<>>],
     [kind |-> "not_json", text |-> "plain", hasEntries |-> FALSE, items |-> <<>>]}
    \cup {[kind |-> "object", text |-> "object", hasEntries |-> TRUE, items |-> es] :
              es \in EntryLists}
    \cup {[kind |-> "object", text |-> "object", hasEntries |-> FALSE, items |-> es] :
              es \in EntryLists}
    \cup {[kind |-> "array", text |-> "array", hasEntries |-> FALSE, items |-> es] :
              es \in EntryLists}

NoBody == [kind |-> "none", text |-> "", hasEntries |-> FALSE, items |-> <<>>]

\* The outcomes of one HTTP request to the child: the send fails, or a
\* response arrives with a non-success or a success status.
Responses ==
    {[conn |-> "err", code |-> "none", body |-> NoBody],
     [conn |-> "ok", code |-> "non_success", body |-> NoBody]}
    \cup {[conn |-> "ok", code |-> "success", body |-> b] : b \in Bodies}

\* response.json::<serde_json::Value>() succeeds.
JsonParses(body) == body.kind \in {"object", "array"}

\* EntriesOf that returns whatever entries the decoded value carries.
EntriesOf_AnyItems(body) == body.items

\* data.get("entries").and_then(|e| e.as_array()), else vec![].
EntriesOf(body) ==
    IF body.kind = "object" /\ body.hasEntries THEN body.items ELSE <<>>

\* ForwardRequests with a second attempt after a failed send.
ForwardRequests_RetryOnError(resp) == IF resp.conn = "err" THEN 2 ELSE 1

\* The requests one forwarding command sends: a single get()/send().
ForwardRequests(resp) == 1

\* get_context_entries.  Error strings: "Failed to connect to ContextVault
\* server" (ConnectionFailed), "Server returned status" (RemoteError),
\* "Failed to parse response" (DecodeFailed).
get_context_entries(resp) ==
    IF resp.conn = "err"
    THEN [result |-> "ConnectionFailed", payload |-> None, net |-> ForwardRequests(resp)]
    ELSE IF resp.code # "success"
    THEN [result |-> "RemoteError", payload |-> None, net |-> ForwardRequests(resp)]
    ELSE IF ~JsonParses(resp.body)
    THEN [result |-> "DecodeFailed", payload |-> None, net |-> ForwardRequests(resp)]
    ELSE [result |-> "Ok", payload |-> Some(EntriesOf(resp.body)),
          net |-> ForwardRequests(resp)]

\* response.text() succeeds.
TextReads(body) == body.kind # "read_error"

\* add_context_entry.  Error strings: "Failed to add context entry"
\* (ConnectionFailed), "Server returned status" (RemoteError), "Failed to
\* read response" (DecodeFailed).
add_context_entry(resp) ==
    IF resp.conn = "err"
    THEN [result |-> "ConnectionFailed", payload |-> None, net |-> ForwardRequests(resp)]
    ELSE IF resp.code # "success"
    THEN [result |-> "RemoteError", payload |-> None, net |-> ForwardRequests(resp)]
    ELSE IF ~TextReads(resp.body)
    THEN [result |-> "DecodeFailed", payload |-> None, net |-> ForwardRequests(resp)]
    ELSE [result |-> "Ok", payload |-> Some(resp.body.text),
          net |-> ForwardRequests(resp)]

\* delete_context_entry.  Error strings: "Failed to delete context entry"
\* (ConnectionFailed), "Server returned status" (RemoteError), "Failed to
\* read response" (DecodeFailed).
delete_context_entry(resp) ==
    IF resp.conn = "err"
    THEN [result |-> "ConnectionFailed", payload |-> None, net |-> ForwardRequests(resp)]
    ELSE IF resp.code # "success"
    THEN [result |-> "RemoteError", payload |-> None, net |-> ForwardRequests(resp)]
    ELSE IF ~TextReads(resp.body)
    THEN [result |-> "DecodeFailed", payload |-> None, net |-> ForwardRequests(resp)]
    ELSE [result |-> "Ok", payload |-> Some(resp.body.text),
          net |-> ForwardRequests(resp)]

\* check_ollama_status that propagates a failed request as an error.
check_ollama_status_PropagatesError(probe) ==
    IF probe = "conn_error"
    THEN [result |-> "Err", value |-> FALSE, net |-> 1]
    ELSE [result |-> "Ok", value |-> probe = "success", net |-> 1]

\* check_ollama_status.  probe: outcome of GET localhost:11434/api/tags.
check_ollama_status(probe) ==
    IF probe = "conn_error"
    THEN [result |-> "Ok", value |-> FALSE, net |-> 1]
    ELSE [result |-> "Ok", value |-> probe = "success", net |-> 1]

\* get_system_info: the fixed fields and the companion flag it probes for.
get_system_info(probe) ==
    LET r == check_ollama_status(probe)
    IN  [result |-> "Ok",
         info |-> [os |-> "OS", arch |-> "ARCH", app_version |-> "VERSION",
                   ollama_running |-> IF r.result = "Ok" THEN r.value
                                      ELSE FALSE],
         net |-> r.net]

\* QueryEffect that records a failed command in the status record.
QueryEffect_RecordsFailure(st, proc, result) ==
    [status |-> IF result = "Ok" THEN st
                ELSE [st EXCEPT !.running = FALSE, !.last_error = Some(result)],
     server_process |-> proc]

\* AppState after a forwarding, probe or system-info command: these commands
\* take no State parameter and write nothing.
QueryEffect(st, proc, result) ==
    [status |-> st, server_process |-> proc]

\* The record of one executed command.  pre* are AppState and the spawn
\* count before the call; pathOk..probe are the outcomes the environment
\* gave it ("none" when the call was not made); child is the child it
\* spawned; net counts the HTTP requests it issued; kill is the child it
\* sent a termination request to; events are the window events it emitted;
\* returned is the result handed to the caller (None when it is discarded);
\* payload is the value a forwarding or probe command returns; resp is the
\* HTTP response a forwarding command received.
OpRecord(opName, r, env) ==
    [op |-> opName, result |-> r.result, ret |-> r.ret,
     preStatus |-> status, preProcess |-> server_process,
     preSpawned |-> spawned,
     child |-> r.child, net |-> r.net, kill |-> r.kill, events |-> r.events,
     returned |-> r.returned, payload |-> r.payload,
     pathOk |-> env.pathOk, exists |-> env.exists, spawnOk |-> env.spawnOk,
     poll |-> env.poll, killOk |-> env.killOk, probe |-> env.probe,
     resp |-> env.resp]

\* A boolean outcome as it is recorded in an OpRecord.
Outcome(b) == IF b THEN "yes" ELSE "no"

NoEnv ==
    [pathOk |-> "none", exists |-> "none", spawnOk |-> "none",
     poll |-> "none", killOk |-> "none", probe |-> "none",
     resp |-> "none"]

\* No command is in flight: the commands run one at a time.
NoneInFlight ==
    [pcS |-> "idle", process |-> None, pathOk |-> TRUE, exists |-> TRUE,
     spawnOk |-> TRUE, poll |-> "running", resS |-> "none", retS |-> None,
     pcT |-> "idle", taken |-> None, killOk |-> "none", resT |-> "none",
     retT |-> None,
     pcH |-> "idle", portH |-> None, probe |-> "none", retH |-> None,
     status0 |-> DefaultStatus, process0 |-> None]

Init ==
    /\ server_process = None
    /\ status = DefaultStatus
    /\ alive = {}
    /\ spawned = 0
    /\ autoStarted = FALSE
    /\ lastOp = [op |-> "init", result |-> "Ok", ret |-> None,
                 preStatus |-> DefaultStatus, preProcess |-> None,
                 preSpawned |-> 0, child |-> None, net |-> 0, kill |-> None,
                 events |-> <<>>, returned |-> None, payload |-> None,
                 pathOk |-> "none", exists |-> "none",
                 spawnOk |-> "none", poll |-> "none", killOk |-> "none",
                 probe |-> "none", resp |-> "none"]
    /\ prevOp = [op |-> "init", result |-> "Ok"]
    /\ conc = NoneInFlight

\* The events the start command emits for a result of the internal start.
StartEvents(result) ==
    IF result = "Ok" THEN <<"server-started">> ELSE <<"server-error">>

\* One call of start_contextvault_server_internal by the start command or by
\* the setup thread, with the outcomes the environment gives it.  stillAlive:
\* whether the child is alive when try_wait itself fails.
StartCall(opName, pathOk, exists, spawnOk, poll, stillAlive) ==
    LET id == spawned + 1
        r == start_contextvault_server_internal(status, server_process, id,
                                                pathOk, exists, spawnOk, poll)
        didSpawn == r.child # None
        evs == IF opName = "start" THEN StartEvents(r.result)
               ELSE <<"server-starting">>
    IN  /\ (pathOk /\ exists /\ spawnOk) => spawned < MaxChildren
        /\ server_process' = r.server_process
        /\ status' = r.status
        /\ spawned' = IF didSpawn THEN id ELSE spawned
        /\ alive' = IF didSpawn /\ (poll = "running" \/ (poll = "error" /\ stillAlive))
                    THEN alive \cup {id} ELSE alive
        /\ lastOp' = OpRecord(opName,
                              [result |-> r.result, ret |-> r.ret,
                               child |-> r.child, net |-> 0, kill |-> None,
                               events |-> evs,
                               returned |-> IF opName = "start"
                                            THEN Some(r.result) ELSE None,
                               payload |-> None],
                              [NoEnv EXCEPT !.pathOk = Outcome(pathOk),
                                            !.exists = IF pathOk THEN Outcome(exists) ELSE "none",
                                            !.spawnOk = IF pathOk /\ exists THEN Outcome(spawnOk) ELSE "none",
                                            !.poll = IF didSpawn THEN poll ELSE "none"])
        /\ prevOp' = [op |-> lastOp.op, result |-> lastOp.result]
        /\ UNCHANGED conc

\* The start_contextvault_server command.
Start ==
    \E pathOk, exists, spawnOk, stillAlive \in BOOLEAN, poll \in PollOutcomes :
        /\ StartCall("start", pathOk, exists, spawnOk, poll, stillAlive)
        /\ UNCHANGED autoStarted

\* The thread spawned in setup: announces the start and calls the internal
\* start once, discarding its result.
AutoStart ==
    /\ ~autoStarted
    /\ autoStarted' = TRUE
    /\ \E pathOk, exists, spawnOk, stillAlive \in BOOLEAN, poll \in PollOutcomes :
        StartCall("autostart", pathOk, exists, spawnOk, poll, stillAlive)

\* The stop_contextvault_server command.  A termination request that was
\* issued ends the child; one that could not be issued leaves it as it is.
Stop ==
    \E killOk \in BOOLEAN :
        LET r == stop_contextvault_server(status, server_process, killOk)
        IN  /\ server_process' = r.server_process
            /\ status' = r.status
            /\ alive' = IF r.result = "Ok" THEN alive \ r.kill ELSE alive
            /\ lastOp' = OpRecord("stop",
                                  [result |-> r.result, ret |-> r.ret,
                                   child |-> None, net |-> 0, kill |-> r.kill,
                                   events |-> <<>>,
                                   returned |-> Some(r.result),
                                   payload |-> None],
                                  [NoEnv EXCEPT !.killOk = IF r.kill # None
                                                           THEN Outcome(killOk) ELSE "none"])
            /\ prevOp' = [op |-> lastOp.op, result |-> lastOp.result]
            /\ UNCHANGED <<spawned, autoStarted, conc>>

\* The get_server_status command: it reads AppState and writes nothing.
GetStatus ==
    \E probe \in ProbeOutcomes :
        LET r == get_server_status(status, probe)
        IN  /\ lastOp' = OpRecord("health",
                                  [result |-> "Ok", ret |-> Some(r.ret),
                                   child |-> None, net |-> r.net,
                                   kill |-> None, events |-> <<>>,
                                   returned |-> Some("Ok"),
                                   payload |-> None],
                                  [NoEnv EXCEPT !.probe = IF r.net = 1
                                                          THEN probe ELSE "none"])
            /\ prevOp' = [op |-> lastOp.op, result |-> lastOp.result]
            /\ UNCHANGED <<server_process, status, alive, spawned, autoStarted, conc>>

\* A child process exits or is killed from outside the application.
ChildExits ==
    \E c \in alive :
        /\ alive' = alive \ {c}
        /\ UNCHANGED <<server_process, status, spawned, autoStarted, lastOp, prevOp, conc>>

\* A command that does not take AppState: r is its result, env the
\* environment outcome it met.
QueryCall(opName, r, env) ==
    LET e == QueryEffect(status, server_process, r.result)
    IN  /\ status' = e.status
        /\ server_process' = e.server_process
        /\ lastOp' = OpRecord(opName,
                              [result |-> r.result, ret |-> None,
                               child |-> None, net |-> r.net, kill |-> None,
                               events |-> <<>>, returned |-> Some(r.result),
                               payload |-> r.payload],
                              env)
        /\ prevOp' = [op |-> lastOp.op, result |-> lastOp.result]
        /\ UNCHANGED <<alive, spawned, autoStarted, conc>>

\* The get_context_entries command.
ListEntries ==
    \E resp \in Responses :
        QueryCall("list", get_context_entries(resp), [NoEnv EXCEPT !.resp = resp])

\* The add_context_entry command.
AddEntry ==
    \E resp \in Responses :
        QueryCall("add", add_context_entry(resp), [NoEnv EXCEPT !.resp = resp])

\* The delete_context_entry command.
DeleteEntry ==
    \E resp \in Responses :
        QueryCall("delete", delete_context_entry(resp), [NoEnv EXCEPT !.resp = resp])

\* The check_ollama_status command.
CheckOllama ==
    \E probe \in ProbeOutcomes :
        LET r == check_ollama_status(probe)
        IN  QueryCall("ollama",
                      [result |-> r.result, payload |-> Some(r.value), net |-> r.net],
                      [NoEnv EXCEPT !.probe = probe])

\* The get_system_info command.
GetSystemInfo ==
    \E probe \in ProbeOutcomes :
        LET r == get_system_info(probe)
        IN  QueryCall("sysinfo",
                      [result |-> r.result, payload |-> Some(r.info), net |-> r.net],
                      [NoEnv EXCEPT !.probe = probe])

Next == Start \/ AutoStart \/ Stop \/ GetStatus \/ ChildExits

Spec == Init /\ [][Next]_vars

\* The forwarding layer and the probes next to the supervisor's start and
\* stop commands.
NextFwd ==
    \/ Start \/ Stop
    \/ ListEntries \/ AddEntry \/ DeleteEntry \/ CheckOllama \/ GetSystemInfo

SpecFwd == Init /\ [][NextFwd]_vars

-----------------------------------------------------------------------------
\* Concurrent commands.  The handlers take no lock: one start (the command
\* or the setup thread), one stop and one get_server_status run in separate
\* threads over the same AppState, and their statements interleave.  Each
\* action below is one statement of one handler.

\* The record before the commands begin: fresh, or left by a successful
\* start that tracks child 1.
InitConc ==
    /\ \E running \in BOOLEAN :
          /\ status = IF running THEN StartedStatus(DefaultStatus)
                      ELSE DefaultStatus
          /\ server_process = IF running THEN Some(1) ELSE None
          /\ alive = IF running THEN {1} ELSE {}
          /\ spawned = IF running THEN 1 ELSE 0
          /\ conc = [NoneInFlight EXCEPT !.pcS = "check", !.pcT = "take",
                                         !.pcH = "read_running",
                                         !.status0 = status,
                                         !.process0 = server_process]
    /\ autoStarted = FALSE
    /\ lastOp = [op |-> "init", result |-> "Ok", ret |-> None,
                 preStatus |-> DefaultStatus, preProcess |-> None,
                 preSpawned |-> 0, child |-> None, net |-> 0, kill |-> None,
                 events |-> <<>>, returned |-> None, payload |-> None,
                 pathOk |-> "none", exists |-> "none",
                 spawnOk |-> "none", poll |-> "none", killOk |-> "none",
                 probe |-> "none", resp |-> "none"]
    /\ prevOp = [op |-> "init", result |-> "Ok"]

ConcFrame == UNCHANGED <<autoStarted, lastOp, prevOp>>

\* start: get_contextvault_server_path()? and the Path::exists test.
StartCheck ==
    /\ conc.pcS = "check"
    /\ \E pathOk, exists \in BOOLEAN :
          conc' = IF ~pathOk
                  THEN [conc EXCEPT !.pcS = "done", !.pathOk = FALSE,
                                    !.resS = "PathError"]
                  ELSE IF BinaryMissing(exists)
                  THEN [conc EXCEPT !.pcS = "done", !.exists = exists,
                                    !.resS = "NotFound"]
                  ELSE [conc EXCEPT !.pcS = "spawn", !.exists = exists]
    /\ UNCHANGED <<server_process, status, alive, spawned>>
    /\ ConcFrame

\* start: Command::new(..).spawn()?.
StartSpawn ==
    /\ conc.pcS = "spawn"
    /\ spawned < MaxChildren
    /\ \E spawnOk \in BOOLEAN :
          IF spawnOk
          THEN /\ spawned' = spawned + 1
               /\ alive' = alive \cup {spawned + 1}
               /\ conc' = [conc EXCEPT !.pcS = "poll",
                                       !.process = Some(spawned + 1)]
          ELSE /\ conc' = [conc EXCEPT !.pcS = "done", !.spawnOk = FALSE,
                                       !.resS = "SpawnFailed"]
               /\ UNCHANGED <<spawned, alive>>
    /\ UNCHANGED <<server_process, status>>
    /\ ConcFrame

\* start: the settling delay and process.try_wait().
StartPoll ==
    /\ conc.pcS = "poll"
    /\ \E poll \in PollOutcomes, stillAlive \in BOOLEAN :
          /\ conc' = IF poll = "running"
                     THEN [conc EXCEPT !.pcS = "write_process"]
                     ELSE [conc EXCEPT !.pcS = "done", !.poll = poll,
                                       !.process = None,
                                       !.resS = IF poll = "exited"
                                                THEN "ProcessExited"
                                                ELSE "PollError"]
          /\ alive' = IF poll = "exited" \/ (poll = "error" /\ ~stillAlive)
                      THEN alive \ conc.process ELSE alive
    /\ UNCHANGED <<server_process, status, spawned>>
    /\ ConcFrame

\* start: app_state.server_process = Some(process).
StartWriteProcess ==
    /\ conc.pcS = "write_process"
    /\ server_process' = conc.process
    /\ conc' = [conc EXCEPT !.pcS = "write_running", !.process = None]
    /\ UNCHANGED <<status, alive, spawned>>
    /\ ConcFrame

\* start: app_state.status.running = true.
StartWriteRunning ==
    /\ conc.pcS = "write_running"
    /\ status' = [status EXCEPT !.running = TRUE]
    /\ conc' = [conc EXCEPT !.pcS = "write_port"]
    /\ UNCHANGED <<server_process, alive, spawned>>
    /\ ConcFrame

\* start: app_state.status.port = Some(8000).
StartWritePort ==
    /\ conc.pcS = "write_port"
    /\ status' = [status EXCEPT !.port = Some(ServerPort)]
    /\ conc' = [conc EXCEPT !.pcS = "write_error"]
    /\ UNCHANGED <<server_process, alive, spawned>>
    /\ ConcFrame

\* start: app_state.status.last_error = None.
StartWriteError ==
    /\ conc.pcS = "write_error"
    /\ status' = [status EXCEPT !.last_error = None]
    /\ conc' = [conc EXCEPT !.pcS = "return"]
    /\ UNCHANGED <<server_process, alive, spawned>>
    /\ ConcFrame

\* start: Ok(app_state.status.clone()).
StartReturn ==
    /\ conc.pcS = "return"
    /\ conc' = [conc EXCEPT !.pcS = "done", !.resS = "Ok",
                            !.retS = Some(status)]
    /\ UNCHANGED <<server_process, status, alive, spawned>>
    /\ ConcFrame

\* stop: app_state.server_process.take().
StopTake ==
    /\ conc.pcT = "take"
    /\ server_process' = None
    /\ conc' = [conc EXCEPT !.taken = server_process,
                            !.pcT = IF server_process # None THEN "kill"
                                    ELSE "write_running"]
    /\ UNCHANGED <<status, alive, spawned>>
    /\ ConcFrame

\* stop: process.kill(), returning the error if it fails.
StopKill ==
    /\ conc.pcT = "kill"
    /\ \E killOk \in BOOLEAN :
          IF killOk
          THEN /\ alive' = alive \ conc.taken
               /\ conc' = [conc EXCEPT !.pcT = "write_running",
                                       !.killOk = "yes"]
          ELSE /\ conc' = [conc EXCEPT !.pcT = "done", !.killOk = "no",
                                       !.resT = "KillFailed"]
               /\ UNCHANGED alive
    /\ UNCHANGED <<server_process, status, spawned>>
    /\ ConcFrame

\* stop: app_state.status.running = false.
StopWriteRunning ==
    /\ conc.pcT = "write_running"
    /\ status' = [status EXCEPT !.running = FALSE]
    /\ conc' = [conc EXCEPT !.pcT = "write_port"]
    /\ UNCHANGED <<server_process, alive, spawned>>
    /\ ConcFrame

\* stop: app_state.status.port = None.
StopWritePort ==
    /\ conc.pcT = "write_port"
    /\ status' = [status EXCEPT !.port = None]
    /\ conc' = [conc EXCEPT !.pcT = "write_error"]
    /\ UNCHANGED <<server_process, alive, spawned>>
    /\ ConcFrame

\* stop: app_state.status.last_error = Some("Server stopped").
StopWriteError ==
    /\ conc.pcT = "write_error"
    /\ status' = [status EXCEPT !.last_error = Some("Server stopped")]
    /\ conc' = [conc EXCEPT !.pcT = "return"]
    /\ UNCHANGED <<server_process, alive, spawned>>
    /\ ConcFrame

\* stop: Ok(app_state.status.clone()).
StopReturn ==
    /\ conc.pcT = "return"
    /\ conc' = [conc EXCEPT !.pcT = "done", !.resT = "Ok",
                            !.retT = Some(status)]
    /\ UNCHANGED <<server_process, status, alive, spawned>>
    /\ ConcFrame

\* get_server_status: if app_state.status.running.
HealthReadRunning ==
    /\ conc.pcH = "read_running"
    /\ conc' = [conc EXCEPT !.pcH = IF status.running THEN "read_port"
                                    ELSE "return"]
    /\ UNCHANGED <<server_process, status, alive, spawned>>
    /\ ConcFrame

\* get_server_status: if let Some(port) = app_state.status.port.
HealthReadPort ==
    /\ conc.pcH = "read_port"
    /\ conc' = [conc EXCEPT !.portH = status.port,
                            !.pcH = IF status.port # None THEN "probe"
                                    ELSE "downgrade"]
    /\ UNCHANGED <<server_process, status, alive, spawned>>
    /\ ConcFrame

\* get_server_status: the GET /api/health request and the test of its
\* answer.
HealthProbe ==
    /\ conc.pcH = "probe"
    /\ \E probe \in ProbeOutcomes :
          conc' = [conc EXCEPT !.probe = probe,
                               !.pcH = IF ProbeSucceeded(probe) THEN "return"
                                       ELSE "downgrade"]
    /\ UNCHANGED <<server_process, status, alive, spawned>>
    /\ ConcFrame

\* get_server_status: the clone with running and last_error overwritten.
HealthDowngrade ==
    /\ conc.pcH = "downgrade"
    /\ conc' = [conc EXCEPT !.pcH = "done",
                            !.retH = Some(NotRespondingStatus(status))]
    /\ UNCHANGED <<server_process, status, alive, spawned>>
    /\ ConcFrame

\* get_server_status: app_state.status.clone().
HealthReturn ==
    /\ conc.pcH = "return"
    /\ conc' = [conc EXCEPT !.pcH = "done", !.retH = Some(status)]
    /\ UNCHANGED <<server_process, status, alive, spawned>>
    /\ ConcFrame

NextConc ==
    \/ StartCheck \/ StartSpawn \/ StartPoll \/ StartWriteProcess
    \/ StartWriteRunning \/ StartWritePort \/ StartWriteError \/ StartReturn
    \/ StopTake \/ StopKill \/ StopWriteRunning \/ StopWritePort
    \/ StopWriteError \/ StopReturn
    \/ HealthReadRunning \/ HealthReadPort \/ HealthProbe
    \/ HealthDowngrade \/ HealthReturn

SpecConc == InitConc /\ [][NextConc]_vars

-----------------------------------------------------------------------------
\* Properties.  lastOp describes the last command executed; the environment
\* step ChildExits changes neither lastOp nor AppState, so a predicate over
\* lastOp and AppState speaks of the state the command left.

IsStart(o) == o.op \in {"start", "autostart"}

StartSucceeded(o) == IsStart(o) /\ o.result = "Ok"

PortIffRunning(s) ==
    /\ s.running <=> s.port = Some(ServerPort)
    /\ ~s.running <=> s.port = None

IsStoppedRecord(s) ==
    /\ s.running = FALSE
    /\ s.port = None
    /\ s.last_error = Some("Server stopped")

\* C1: the supervisor owns at most one child handle, and a successful
\* start() while a child is tracked does not leave the earlier child alive
\* and untracked.
C1_NoLeakedChild ==
    /\ Cardinality(server_process) <= 1
    /\ (StartSucceeded(lastOp) /\ lastOp.preProcess # None)
          => (lastOp.preProcess \cap alive) \subseteq server_process

\* C2: a start() whose binary exists, whose spawn succeeds and whose child
\* is alive at the poll succeeds, tracks that child, sets running=true,
\* port=8000, last_error=None and returns the stored record.
C2_StartSuccess ==
    (IsStart(lastOp) /\ lastOp.pathOk = "yes" /\ lastOp.exists = "yes"
        /\ lastOp.spawnOk = "yes" /\ lastOp.poll = "running")
    => /\ lastOp.result = "Ok"
       /\ lastOp.child # None
       /\ server_process = lastOp.child
       /\ status.running = TRUE
       /\ status.port = Some(ServerPort)
       /\ status.last_error = None
       /\ lastOp.ret = Some(status)

\* C2 witness: a start succeeded from a record that a stop had left.
C2_Witness ==
    /\ StartSucceeded(lastOp)
    /\ lastOp.poll = "running"
    /\ lastOp.preStatus.last_error = Some("Server stopped")

\* C3 as stated: stop() right after start() leaves the record stopped,
\* whatever the outcomes of the start and of the termination request.
C3_StartThenStopAlwaysStopped ==
    (lastOp.op = "stop" /\ IsStart(prevOp)) => IsStoppedRecord(status)

\* C3 amended: stop() right after start() leaves the record stopped whenever
\* stop() returns success, for every outcome of the start; a stop() whose
\* termination request fails returns KillFailed and leaves the record as
\* the start left it.
C3_StartThenStop ==
    (lastOp.op = "stop" /\ IsStart(prevOp))
    => /\ lastOp.result \in {"Ok", "KillFailed"}
       /\ lastOp.result = "Ok"
            => IsStoppedRecord(status) /\ lastOp.ret = Some(status)
       /\ lastOp.result = "KillFailed"
            => /\ status = lastOp.preStatus
               /\ lastOp.killOk = "no"
       /\ lastOp.killOk # "no" => lastOp.result = "Ok"

\* C3 witness: a stop whose termination request was issued, right after a
\* successful start.
C3_Witness ==
    /\ lastOp.op = "stop"
    /\ IsStart(prevOp) /\ prevOp.result = "Ok"
    /\ lastOp.killOk = "yes"
    /\ lastOp.preStatus.running

\* C4: start() with a missing binary fails with NotFound, spawns nothing and
\* leaves the status record and the tracked handle as they were.
C4_NotFoundChangesNothing ==
    (IsStart(lastOp) /\ lastOp.pathOk = "yes" /\ lastOp.exists = "no")
    => /\ lastOp.result = "NotFound"
       /\ lastOp.child = None
       /\ spawned = lastOp.preSpawned
       /\ status = lastOp.preStatus
       /\ server_process = lastOp.preProcess
       /\ (lastOp.preStatus = DefaultStatus => status.running = FALSE)

\* C4 witness: NotFound while a child was tracked and the record said
\* running.
C4_Witness ==
    /\ IsStart(lastOp) /\ lastOp.exists = "no"
    /\ lastOp.result = "NotFound"
    /\ lastOp.preStatus.running
    /\ lastOp.preProcess # None

\* C5: a start() that fails after spawning leaves the spawned child
\* untracked and the record and the earlier handle unchanged; the tracked
\* handle becomes a new child only by a successful start(), which spawns
\* exactly one child and tracks that one.
C5_FailedStartTracksNothing ==
    /\ (IsStart(lastOp) /\ lastOp.poll \in {"exited", "error"})
       => /\ lastOp.result = IF lastOp.poll = "exited" THEN "ProcessExited"
                             ELSE "PollError"
          /\ lastOp.child # None
          /\ lastOp.child \cap server_process = {}
          /\ status = lastOp.preStatus
          /\ server_process = lastOp.preProcess
    /\ (server_process # None /\ server_process # lastOp.preProcess)
       => /\ StartSucceeded(lastOp)
          /\ server_process = lastOp.child
    /\ StartSucceeded(lastOp)
       => /\ spawned = lastOp.preSpawned + 1
          /\ server_process = Some(spawned)
    /\ (IsStart(lastOp) /\ lastOp.result # "Ok")
       => spawned <= lastOp.preSpawned + 1

\* C5 witness: a start failed after spawning while another child was
\* tracked.
C5_Witness ==
    /\ IsStart(lastOp)
    /\ lastOp.result \in {"ProcessExited", "PollError"}
    /\ lastOp.preProcess # None
    /\ server_process = lastOp.preProcess

\* C6: healthCheck() on a record with running=false issues no network
\* request and returns the stored record.
C6_NotRunningNoProbe ==
    (lastOp.op = "health" /\ ~lastOp.preStatus.running)
    => /\ lastOp.net = 0
       /\ lastOp.ret = Some(status)
       /\ status = lastOp.preStatus

\* C6 witness: a health check on a record that a stop left.
C6_Witness ==
    /\ lastOp.op = "health"
    /\ ~lastOp.preStatus.running
    /\ lastOp.preStatus.last_error = Some("Server stopped")
    /\ prevOp.op = "stop"

\* C7: healthCheck() on a running record whose probe succeeds returns the
\* stored record and leaves record and handle unchanged, running=true.
C7_HealthyStaysRunning ==
    (lastOp.op = "health" /\ lastOp.preStatus.running
        /\ lastOp.probe = "success")
    => /\ lastOp.ret = Some(status)
       /\ status = lastOp.preStatus
       /\ status.running = TRUE
       /\ server_process = lastOp.preProcess
       /\ lastOp.net = 1

\* C7 witness: a successful probe of a tracked, live child.
C7_Witness ==
    /\ lastOp.op = "health"
    /\ lastOp.preStatus.running
    /\ lastOp.probe = "success"
    /\ server_process # None
    /\ server_process \subseteq alive

\* C8: healthCheck() on a running record whose probe fails returns
\* running=false, last_error="Server not responding", sends no termination
\* request and keeps the handle tracked.
C8_UnresponsiveDowngrade ==
    (lastOp.op = "health" /\ lastOp.preStatus.running
        /\ lastOp.probe \in {"non_success", "conn_error"})
    => /\ \A r \in lastOp.ret :
            /\ r.running = FALSE
            /\ r.last_error = Some("Server not responding")
       /\ lastOp.ret # None
       /\ lastOp.kill = None
       /\ server_process = lastOp.preProcess

\* C8 witness: a failed probe after the tracked child died.
C8_Witness ==
    /\ lastOp.op = "health"
    /\ lastOp.preStatus.running
    /\ lastOp.probe = "conn_error"
    /\ server_process # None
    /\ server_process \cap alive = {}

\* C9: after a failed health check the stored record mirrors the returned
\* snapshot (running=false, last_error="Server not responding").
C9_StoredMirrorsDowngrade ==
    (lastOp.op = "health" /\ lastOp.preStatus.running
        /\ lastOp.probe \in {"non_success", "conn_error"})
    => /\ lastOp.ret = Some(status)
       /\ status.running = FALSE
       /\ status.last_error = Some("Server not responding")

\* C10: in the stored record and in every returned snapshot, port is set
\* exactly when running is true.
C10_PortIffRunning ==
    /\ PortIffRunning(status)
    /\ \A r \in lastOp.ret : PortIffRunning(r)

\* C11 as stated: stop() with no child tracked changes no field of the
\* status record and returns it; on the fresh record last_error stays None.
C11_UntrackedStopIsNoOp ==
    (lastOp.op = "stop" /\ lastOp.preProcess = None)
    => /\ status = lastOp.preStatus
       /\ lastOp.ret = Some(status)
       /\ (lastOp.preStatus = DefaultStatus => status.last_error = None)

\* C11 amended: stop() with no child tracked sends no termination request,
\* returns success, and stores and returns running=false, port=None,
\* last_error="Server stopped"; the other fields keep their values.
C11_UntrackedStopWritesStopped ==
    (lastOp.op = "stop" /\ lastOp.preProcess = None)
    => /\ lastOp.result = "Ok"
       /\ lastOp.kill = None
       /\ server_process = None
       /\ IsStoppedRecord(status)
       /\ lastOp.ret = Some(status)
       /\ status.ollama_detected = lastOp.preStatus.ollama_detected
       /\ status.ollama_port = lastOp.preStatus.ollama_port
       /\ status.context_entries = lastOp.preStatus.context_entries

\* C11 witness: stop() on the fresh record.
C11_Witness ==
    /\ lastOp.op = "stop"
    /\ lastOp.preProcess = None
    /\ lastOp.preStatus = DefaultStatus
    /\ status.last_error = Some("Server stopped")

\* C12: after a stop() made while a child is tracked no handle is tracked,
\* whether it returns success or KillFailed; it returns KillFailed exactly
\* when the termination request could not be issued, and writes the stopped
\* record only after a request that was issued.
C12_TrackedStop ==
    (lastOp.op = "stop" /\ lastOp.preProcess # None)
    => /\ server_process = None
       /\ lastOp.kill = lastOp.preProcess
       /\ lastOp.result = IF lastOp.killOk = "no" THEN "KillFailed" ELSE "Ok"
       /\ lastOp.killOk = "yes"
            => IsStoppedRecord(status) /\ lastOp.ret = Some(status)
       /\ lastOp.killOk = "no"
            => status = lastOp.preStatus /\ lastOp.ret = None

\* C12 witness: a stop() of a tracked child whose termination request
\* failed.
C12_Witness ==
    /\ lastOp.op = "stop"
    /\ lastOp.preProcess # None
    /\ lastOp.result = "KillFailed"
    /\ server_process = None

\* The record's last_error is the one a failed health check reports.
DetectedNotResponding(o) ==
    /\ o.op = "health"
    /\ o.preStatus.running
    /\ o.probe \in {"non_success", "conn_error"}

ErrorEvents(evs) ==
    Cardinality({i \in 1..Len(evs) : evs[i] = "server-error"})

\* C15: every failed start attempt, by the command or by the automatic
\* start, is surfaced exactly once (an error result to the caller and one
\* "server-error" event) and is not retried.
C15_StartFailureSurfaced ==
    (IsStart(lastOp) /\ lastOp.result # "Ok")
    => /\ ErrorEvents(lastOp.events) = 1
       /\ lastOp.returned = Some(lastOp.result)
       /\ spawned <= lastOp.preSpawned + 1

\* C20 as stated: the stored record has running=true exactly when a child
\* handle is tracked.
C20_RunningIffTracked ==
    status.running <=> server_process # None

\* C20 amended: a tracked handle implies running=true, and running=true
\* without a tracked handle arises only from a stop() whose termination
\* request failed (it stays until the next successful start or stop).
C20_TrackedImpliesRunning ==
    /\ server_process # None => status.running
    /\ (status.running /\ server_process = None)
       => \/ lastOp.op = "stop" /\ lastOp.result = "KillFailed"
          \/ lastOp.preStatus.running /\ lastOp.preProcess = None

\* C20 witness: running=true with no handle after a failed termination
\* request.
C20_Witness ==
    /\ status.running
    /\ server_process = None
    /\ lastOp.op = "stop"
    /\ lastOp.result = "KillFailed"

\* Properties of the forwarding layer and the probes, under SpecFwd.

ForwardOps == {"list", "add", "delete"}

QueryOps == ForwardOps \cup {"ollama", "sysinfo"}

\* The error a forwarding command owes to a response that is not a success
\* with a usable body ("none" when the response is one).
OwedError(op, resp) ==
    IF resp.conn = "err" THEN "ConnectionFailed"
    ELSE IF resp.code # "success" THEN "RemoteError"
    ELSE IF resp.body.kind = "read_error" THEN "DecodeFailed"
    ELSE IF op = "list" /\ resp.body.kind = "not_json" THEN "DecodeFailed"
    ELSE "none"

\* C16 as stated: connection failure gives ConnectionFailed, a non-success
\* status RemoteError, an unreadable or unparsable body DecodeFailed, and a
\* success passes the decoded payload (or the raw text) through unchanged.
C16_OutcomeMapping ==
    lastOp.op \in ForwardOps
    => LET owed == OwedError(lastOp.op, lastOp.resp)
       IN  /\ owed # "none" => lastOp.result = owed /\ lastOp.payload = None
           /\ owed = "none"
                => /\ lastOp.result = "Ok"
                   /\ lastOp.op = "list"
                        => lastOp.payload = Some(lastOp.resp.body.items)
                   /\ lastOp.op # "list"
                        => lastOp.payload = Some(lastOp.resp.body.text)

\* C16 amended: the error mapping as stated; on success addContextEntry and
\* deleteContextEntry return the raw response text unchanged, and
\* listContextEntries returns the array under the decoded body's "entries"
\* key unchanged, or the empty list when the decoded JSON has no such array.
C16_OutcomeMappingEntries ==
    lastOp.op \in ForwardOps
    => LET owed == OwedError(lastOp.op, lastOp.resp)
           body == lastOp.resp.body
       IN  /\ owed # "none" => lastOp.result = owed /\ lastOp.payload = None
           /\ owed = "none"
                => /\ lastOp.result = "Ok"
                   /\ (lastOp.op = "list" /\ body.kind = "object" /\ body.hasEntries)
                        => lastOp.payload = Some(body.items)
                   /\ (lastOp.op = "list" /\ ~(body.kind = "object" /\ body.hasEntries))
                        => lastOp.payload = Some(<<>>)
                   /\ lastOp.op # "list"
                        => lastOp.payload = Some(body.text)

\* C16 witness: listContextEntries answered with a top-level JSON array that
\* carries an entry, and returning the empty list.
C16_Witness ==
    /\ lastOp.op = "list"
    /\ lastOp.result = "Ok"
    /\ lastOp.resp.body.kind = "array"
    /\ lastOp.resp.body.items # <<>>
    /\ lastOp.payload = Some(<<>>)

\* C17: every invocation of a forwarding operation issues exactly one HTTP
\* request, whatever its outcome and whatever the status record says.
C17_OneRequestPerCall ==
    lastOp.op \in ForwardOps => lastOp.net = 1

\* C17 witness: a forwarding call that failed to connect while the record
\* had running=false.
C17_Witness ==
    /\ lastOp.op \in ForwardOps
    /\ lastOp.result = "ConnectionFailed"
    /\ ~lastOp.preStatus.running
    /\ lastOp.net = 1

\* C18: the forwarding, probe and system-info commands leave the status
\* record and the tracked handle unchanged, on success and on every error.
C18_QueriesChangeNothing ==
    lastOp.op \in QueryOps
    => /\ status = lastOp.preStatus
       /\ server_process = lastOp.preProcess
       /\ spawned = lastOp.preSpawned
       /\ lastOp.kill = None
       /\ lastOp.child = None

\* C18 witness: addContextEntry failed to connect while a child was tracked
\* and the record said running.
C18_Witness ==
    /\ lastOp.op = "add"
    /\ lastOp.result = "ConnectionFailed"
    /\ status.running
    /\ server_process # None

\* C19: checkCompanionStatus never fails and returns true exactly when the
\* probe answers with a success status; getSystemInfo always succeeds and
\* reports that boolean.
C19_CompanionProbe ==
    /\ lastOp.op = "ollama"
         => /\ lastOp.result = "Ok"
            /\ lastOp.payload = Some(lastOp.probe = "success")
    /\ lastOp.op = "sysinfo"
         => /\ lastOp.result = "Ok"
            /\ lastOp.payload # None
            /\ \A info \in lastOp.payload :
                  info.ollama_running = (lastOp.probe = "success")

\* C19 witness: checkCompanionStatus met a refused connection and returned
\* false without an error.
C19_Witness ==
    /\ lastOp.op = "ollama"
    /\ lastOp.probe = "conn_error"
    /\ lastOp.result = "Ok"
    /\ lastOp.payload = Some(FALSE)

\* Properties of the concurrent commands, under SpecConc.

ConcDone == conc.pcS = "done" /\ conc.pcT = "done" /\ conc.pcH = "done"

\* What the three commands left and returned.
ConcOutcome ==
    [status |-> status, process |-> server_process,
     resS |-> conc.resS, retS |-> conc.retS,
     resT |-> conc.resT, retT |-> conc.retT, retH |-> conc.retH]

\* The same three commands run one at a time, each as a whole, with the
\* environment outcomes the concurrent run met.
SerialStart(a) ==
    LET r == start_contextvault_server_internal(
                 a.status, a.process, Cardinality(conc.process0) + 1,
                 conc.pathOk, conc.exists, conc.spawnOk, conc.poll)
    IN  [a EXCEPT !.status = r.status, !.process = r.server_process,
                  !.resS = r.result, !.retS = r.ret]

SerialStop(a, killOk) ==
    LET r == stop_contextvault_server(a.status, a.process, killOk)
    IN  [a EXCEPT !.status = r.status, !.process = r.server_process,
                  !.resT = r.result, !.retT = r.ret]

SerialHealth(a, probe) ==
    [a EXCEPT !.retH = Some(get_server_status(a.status, probe).ret)]

SerialOutcomes ==
    LET a0 == [status |-> conc.status0, process |-> conc.process0,
               resS |-> "none", retS |-> None, resT |-> "none",
               retT |-> None, retH |-> None]
        kills == IF conc.killOk = "none" THEN BOOLEAN
                 ELSE {conc.killOk = "yes"}
        probes == IF conc.probe = "none" THEN ProbeOutcomes
                  ELSE {conc.probe}
    IN  UNION {{SerialHealth(SerialStop(SerialStart(a0), k), p),
                SerialStop(SerialHealth(SerialStart(a0), p), k),
                SerialHealth(SerialStart(SerialStop(a0, k)), p),
                SerialStart(SerialHealth(SerialStop(a0, k), p)),
                SerialStop(SerialStart(SerialHealth(a0, p)), k),
                SerialStart(SerialStop(SerialHealth(a0, p), k))} :
               k \in kills, p \in probes}

\* C14: when start(), stop() and healthCheck() run concurrently, the final
\* handle and record and the results returned are those of some serial
\* order of the three operations.
C14_Serializable ==
    ConcDone => ConcOutcome \in SerialOutcomes

====
